---- MODULE Spec2Model ----
(***************************************************************************)
(* Model of mixed-discrete-continious.py: the two fixed-step simulators    *)
(* HybridEquation (condition-triggered jumps that replace the              *)
(* Euler-Maruyama update) and JumpDiffusion (intensity-triggered jumps     *)
(* added after the Euler-Maruyama update).                                 *)
(*                                                                         *)
(* Numbers.  Every float of the program is modelled by an integer: the     *)
(* inputs are integer-valued floats, on which +, -, * and the square root  *)
(* of a perfect square are exact in IEEE arithmetic.  The two quantities   *)
(* that are fractions, the uniform sample u in [0,1) and jump_intensity,   *)
(* are counted in units of 1/UniformGrid.                                  *)
(* State vectors (numpy arrays of shape (n,)) are sequences of integers.   *)
(***************************************************************************)
EXTENDS Integers, Sequences, FiniteSets, TLC

VARIABLES
    cls,      \* class of the object under construction / constructed
    self,     \* the instance's attributes, a record named as in the source
    y0,       \* constructor argument y0
    t0,       \* constructor argument t0
    pc,       \* "start" | "idle" | "loop" | "raised"
    i,        \* iterations of the for loop of the running solve() so far
    runs,     \* number of solve() calls that have returned
    result,   \* what the last solve() returned: [time, trajectory], or <<>>
    err,      \* name of the exception that ended construction or the run
    draws,    \* the global random stream: kinds of the draws consumed so far
    pos0,     \* position of the random stream when solve() was entered
    last      \* the step just executed: its draws and intermediate values

vars == <<cls, self, y0, t0, pc, i, runs, result, err, draws, pos0, last>>

(***************************************************************************)
(* Bounds of the model.                                                    *)
(***************************************************************************)
MaxSteps == 2      \* constructor arguments give at most this many steps
MaxRuns == 2       \* solve() is called at most this many times
MaxLen == 5        \* solve() is not entered if it would record more entries
UniformGrid == 2   \* uniform samples are k/UniformGrid, k in 0..UniformGrid-1

(***************************************************************************)
(* numpy arithmetic on arrays of shape (n,), with broadcasting.            *)
(***************************************************************************)
Broadcastable(a, b) == Len(a) = Len(b) \/ Len(a) = 1 \/ Len(b) = 1

BLen(a, b) == IF Len(a) >= Len(b) THEN Len(a) ELSE Len(b)

At(a, k) == IF Len(a) = 1 THEN a[1] ELSE a[k]

VAdd(a, b) == [k \in 1..BLen(a, b) |-> At(a, k) + At(b, k)]

VMul(a, b) == [k \in 1..BLen(a, b) |-> At(a, k) * At(b, k)]

SMul(c, v) == [k \in 1..Len(v) |-> c * v[k]]

\* np.sqrt on the perfect squares the model uses for dt
Sqrt(n) == CHOOSE r \in 0..n : r * r = n

\* int(x / d) for d # 0: Python's int() truncates toward zero
IntRoundedUp(x, d) == -((-x) \div d)

IntTrunc(x, d) == IF x >= 0 THEN x \div d ELSE -((-x) \div d)

(***************************************************************************)
(* The caller's callables, a small family of each.                         *)
(***************************************************************************)
\* drift, diffusion and jump-size callables: State -> array
Call(fn, y) ==
    CASE fn = "ident"  -> y
      [] fn = "negate" -> [k \in 1..Len(y) |-> -y[k]]
      [] fn = "ones"   -> [k \in 1..Len(y) |-> 1]
      [] fn = "first"  -> <<y[1]>>
      [] fn = "pad"    -> Append(y, 0)

\* jump_condition(y, t)
JumpCondition(fn, y, t) ==
    CASE fn = "never"  -> FALSE
      [] fn = "always" -> TRUE
      [] fn = "y_gt_t" -> y[1] > t

\* jump_map(y, t)
JumpMap(fn, y, t) ==
    CASE fn = "flip"  -> [k \in 1..Len(y) |-> IF k = Len(y) THEN -y[k] ELSE y[k]]
      [] fn = "add_t" -> [k \in 1..Len(y) |-> y[k] + t]

\* drift and diffusion callables that keep the same-dimension contract
DriftFns == {"ident", "negate"}
DiffusionFns == {"ones", "ident"}
JumpSizeFns == {"ident", "ones"}
JumpConditions == {"never", "always", "y_gt_t"}
JumpMaps == {"flip", "add_t"}
\* callables that break the same-dimension contract
ShapeFns == {"ident", "first", "pad"}

InitialStates == {<<1>>, <<1, -2>>}
StartTimes == {0, 1}
StepSizes == {0, 1, 4}
Spans == {-1} \cup (0..MaxSteps) \cup {4 * k + 1 : k \in 1..MaxSteps}
NoiseIntensities == {-1, 0, 1}
JumpIntensities == {-UniformGrid, 0, 1, UniformGrid}

\* values of np.random.normal(size=shape) the model draws
Normals(n) == IF n = 1 THEN {<<-1>>, <<1>>}
              ELSE {[k \in 1..n |-> IF k = 1 THEN 1 ELSE -1],
                    [k \in 1..n |-> IF k = 1 THEN 0 ELSE 1]}

\* values of np.random.uniform(), in units of 1/UniformGrid
Uniforms == 0..(UniformGrid - 1)

NoStep == [calls |-> <<>>, xi |-> <<>>, u |-> -1, a |-> <<>>]

Init ==
    /\ cls = "none"
    /\ self = <<>>
    /\ y0 = <<>>
    /\ t0 = 0
    /\ pc = "start"
    /\ i = 0
    /\ runs = 0
    /\ result = <<>>
    /\ err = ""
    /\ draws = <<>>
    /\ pos0 = 0
    /\ last = NoStep

(***************************************************************************)
(* HybridEquation                                                          *)
(***************************************************************************)
\* HybridEquation.__init__: no argument is validated; float division by
\* dt = 0.0 raises ZeroDivisionError after the first nine attributes are set
HybridInit(ff, gg, jc, jm, yy0, tt0, tt1, ddt, sig) ==
    LET attrs == [f_continuous |-> ff, g_stochastic |-> gg,
                  jump_condition |-> jc, jump_map |-> jm,
                  y |-> yy0, t |-> tt0, t1 |-> tt1, dt |-> ddt,
                  noise_intensity |-> sig]
    IN  /\ pc = "start"
        /\ cls' = "HybridEquation"
        /\ y0' = yy0
        /\ t0' = tt0
        /\ IF ddt = 0
           THEN /\ self' = attrs
                /\ pc' = "raised"
                /\ err' = "ZeroDivisionError"
           ELSE /\ self' = [f_continuous |-> ff, g_stochastic |-> gg,
                            jump_condition |-> jc, jump_map |-> jm,
                            y |-> yy0, t |-> tt0, t1 |-> tt1, dt |-> ddt,
                            noise_intensity |-> sig,
                            steps |-> IntTrunc(tt1 - tt0, ddt),
                            trajectory |-> <<yy0>>, time |-> <<tt0>>]
                /\ pc' = "idle"
                /\ err' = ""
        /\ UNCHANGED <<i, runs, result, draws, pos0, last>>

\* the constructor arguments a caller keeping the callables' contract passes
NewHybrid ==
    /\ pc = "start"
    /\ \E ff \in DriftFns, gg \in DiffusionFns, jc \in JumpConditions,
          jm \in JumpMaps, yy0 \in InitialStates, tt0 \in StartTimes,
          span \in Spans, ddt \in StepSizes, sig \in NoiseIntensities :
           /\ ddt # 0 => IntTrunc(span, ddt) <= MaxSteps
           /\ HybridInit(ff, gg, jc, jm, yy0, tt0, tt0 + span, ddt, sig)

\* HybridEquation.euler_maruyama_step with xi the value np.random.normal returns
Hybrid_euler_maruyama_step_unscaled(s, y, dt, xi) ==
    LET noise == SMul(Sqrt(dt), xi)
    IN  VAdd(VAdd(y, SMul(dt, Call(s.f_continuous, y))),
             VMul(Call(s.g_stochastic, y), noise))

Hybrid_euler_maruyama_step_minus(s, y, dt, xi) ==
    LET noise == SMul(-(s.noise_intensity * Sqrt(dt)), xi)
    IN  VAdd(VAdd(y, SMul(dt, Call(s.f_continuous, y))),
             VMul(Call(s.g_stochastic, y), noise))

Hybrid_euler_maruyama_step(s, y, dt, xi) ==
    LET noise == SMul(s.noise_intensity * Sqrt(dt), xi)
    IN  VAdd(VAdd(y, SMul(dt, Call(s.f_continuous, y))),
             VMul(Call(s.g_stochastic, y), noise))

\* numpy raises ValueError when two operands of + or * cannot be broadcast
Hybrid_euler_maruyama_raises(s, y, dt, xi) ==
    LET fy == Call(s.f_continuous, y)
        gy == Call(s.g_stochastic, y)
    IN  \/ ~Broadcastable(y, fy)
        \/ ~Broadcastable(gy, xi)
        \/ ~Broadcastable(VAdd(y, fy), VMul(gy, xi))

\* solve() is entered: range(self.steps) is created
HybridSolveCall ==
    /\ cls = "HybridEquation"
    /\ pc = "idle"
    /\ runs < MaxRuns
    /\ Len(self.trajectory) + self.steps <= MaxLen
    /\ pc' = "loop"
    /\ i' = 0
    /\ pos0' = Len(draws)
    /\ last' = NoStep
    /\ UNCHANGED <<cls, self, y0, t0, runs, result, err, draws>>

\* the draw of euler_maruyama_step: np.random.normal is called on every call,
\* whatever noise_intensity is, and advances the global stream by one draw
DrawNormalSkippedAtZero(s, stream) ==
    IF s.noise_intensity = 0 THEN stream ELSE Append(stream, "normal")

DrawNormalPerComponent(s, stream) ==
    stream \o [k \in 1..Len(s.y) |-> "normal"]

DrawNormal(s, stream) == Append(stream, "normal")

\* the end of an iteration of either solve(): self.y is rebound to the new
\* array, self.t += self.dt, and both are appended to the two lists.  The
\* arrays are never updated in place, so the entries appended earlier keep
\* their values
CommitCountingDown(s, y1) ==
    [s EXCEPT !.y = y1,
              !.t = s.t + s.dt,
              !.steps = @ - 1,
              !.trajectory = Append(@, y1),
              !.time = Append(@, s.t + s.dt)]

Commit(s, y1) ==
    [s EXCEPT !.y = y1,
              !.t = s.t + s.dt,
              !.trajectory = Append(@, y1),
              !.time = Append(@, s.t + s.dt)]

\* the state update of one iteration: the jump map or the Euler-Maruyama step
HybridUpdateJumpDropped(s, jump, xi) ==
    IF jump THEN s.y ELSE Hybrid_euler_maruyama_step(s, s.y, s.dt, xi)

HybridUpdate(s, jump, xi) ==
    IF jump
    THEN JumpMap(s.jump_map, s.y, s.t)
    ELSE Hybrid_euler_maruyama_step(s, s.y, s.dt, xi)

\* one iteration of the for loop of HybridEquation.solve
HybridSolveStep ==
    /\ cls = "HybridEquation"
    /\ pc = "loop"
    /\ i < self.steps
    /\ LET jump == JumpCondition(self.jump_condition, self.y, self.t)
       IN  \E xi \in (IF jump THEN {<<>>} ELSE Normals(Len(self.y))) :
             IF ~jump /\ Hybrid_euler_maruyama_raises(self, self.y, self.dt, xi)
             THEN /\ pc' = "raised"
                  /\ err' = "ValueError"
                  /\ draws' = DrawNormal(self, draws)
                  /\ last' = [calls |-> <<"jump_condition", "euler_maruyama_step">>,
                              xi |-> xi, u |-> -1, a |-> <<>>]
                  /\ UNCHANGED <<self, i>>
             ELSE LET y1 == HybridUpdate(self, jump, xi)
                  IN  /\ self' = Commit(self, y1)
                      /\ last' = [calls |-> IF jump
                                    THEN <<"jump_condition", "jump_map">>
                                    ELSE <<"jump_condition", "euler_maruyama_step">>,
                                  xi |-> xi, u |-> -1,
                                  a |-> IF jump THEN <<>> ELSE y1]
                      /\ draws' = IF jump THEN draws ELSE DrawNormal(self, draws)
                      /\ i' = i + 1
                      /\ UNCHANGED <<pc, err>>
    /\ UNCHANGED <<cls, y0, t0, runs, result, pos0>>

\* np.array(list of arrays): a 2-D array when all rows have one shape; for rows
\* of different shapes numpy either raises ValueError (1.24 and later) or
\* builds an object array (earlier versions)
ArrayOutcomes(rows) ==
    IF \A j, k \in 1..Len(rows) : Len(rows[j]) = Len(rows[k])
    THEN {"array"}
    ELSE {"object_array", "ValueError"}

\* the loop of HybridEquation.solve is exhausted: return the two arrays
HybridSolveReturn ==
    /\ cls = "HybridEquation"
    /\ pc = "loop"
    /\ i >= self.steps
    /\ \E outcome \in ArrayOutcomes(self.trajectory) :
         IF outcome = "ValueError"
         THEN /\ pc' = "raised"
              /\ err' = "ValueError"
              /\ UNCHANGED <<runs, result>>
         ELSE /\ pc' = "idle"
              /\ result' = [time |-> self.time, trajectory |-> self.trajectory]
              /\ runs' = runs + 1
              /\ UNCHANGED err
    /\ UNCHANGED <<cls, self, y0, t0, i, draws, pos0, last>>

(***************************************************************************)
(* JumpDiffusion                                                           *)
(***************************************************************************)
\* JumpDiffusion.__init__: as HybridEquation.__init__, nothing is validated
JumpDiffusionInit(ff, gg, lam, js, yy0, tt0, tt1, ddt, sig) ==
    /\ pc = "start"
    /\ cls' = "JumpDiffusion"
    /\ y0' = yy0
    /\ t0' = tt0
    /\ IF ddt = 0
       THEN /\ self' = [f |-> ff, g |-> gg, jump_intensity |-> lam,
                        jump_size |-> js, y |-> yy0, t |-> tt0, t1 |-> tt1,
                        dt |-> ddt, noise_intensity |-> sig]
            /\ pc' = "raised"
            /\ err' = "ZeroDivisionError"
       ELSE /\ self' = [f |-> ff, g |-> gg, jump_intensity |-> lam,
                        jump_size |-> js, y |-> yy0, t |-> tt0, t1 |-> tt1,
                        dt |-> ddt, noise_intensity |-> sig,
                        steps |-> IntTrunc(tt1 - tt0, ddt),
                        trajectory |-> <<yy0>>, time |-> <<tt0>>]
            /\ pc' = "idle"
            /\ err' = ""
    /\ UNCHANGED <<i, runs, result, draws, pos0, last>>

NewJumpDiffusion ==
    /\ pc = "start"
    /\ \E ff \in DriftFns, gg \in DiffusionFns, lam \in JumpIntensities,
          js \in JumpSizeFns, yy0 \in InitialStates, tt0 \in StartTimes,
          span \in Spans, ddt \in StepSizes, sig \in NoiseIntensities :
           /\ ddt # 0 => IntTrunc(span, ddt) <= MaxSteps
           /\ JumpDiffusionInit(ff, gg, lam, js, yy0, tt0, tt0 + span, ddt, sig)

\* JumpDiffusion.euler_maruyama_step with xi the value np.random.normal returns
JD_euler_maruyama_step_dt(s, y, dt, xi) ==
    LET noise == SMul(s.noise_intensity * dt, xi)
    IN  VAdd(VAdd(y, SMul(dt, Call(s.f, y))), VMul(Call(s.g, y), noise))

JD_euler_maruyama_step(s, y, dt, xi) ==
    LET noise == SMul(s.noise_intensity * Sqrt(dt), xi)
    IN  VAdd(VAdd(y, SMul(dt, Call(s.f, y))), VMul(Call(s.g, y), noise))

JD_euler_maruyama_raises(s, y, dt, xi) ==
    LET fy == Call(s.f, y)
        gy == Call(s.g, y)
    IN  \/ ~Broadcastable(y, fy)
        \/ ~Broadcastable(gy, xi)
        \/ ~Broadcastable(VAdd(y, fy), VMul(gy, xi))

\* the test of JumpDiffusion.apply_jump on the uniform sample u/UniformGrid;
\* jump_intensity is held in units of 1/UniformGrid, so u < lambda * dt
JumpFiresAtEqual(s, u) == u <= s.jump_intensity * s.dt

JumpFiresWithoutDt(s, u) == u < s.jump_intensity

JumpFires(s, u) == u < s.jump_intensity * s.dt

\* JumpDiffusion.apply_jump with u the value np.random.uniform returns
apply_jump_stale(s, y, u) ==
    IF JumpFires(s, u) THEN VAdd(y, Call(s.jump_size, s.y)) ELSE y

apply_jump(s, y, u) ==
    IF JumpFires(s, u) THEN VAdd(y, Call(s.jump_size, y)) ELSE y

JumpDiffusionSolveCall ==
    /\ cls = "JumpDiffusion"
    /\ pc = "idle"
    /\ runs < MaxRuns
    /\ Len(self.trajectory) + self.steps <= MaxLen
    /\ pc' = "loop"
    /\ i' = 0
    /\ pos0' = Len(draws)
    /\ last' = NoStep
    /\ UNCHANGED <<cls, self, y0, t0, runs, result, err, draws>>

\* one iteration of the for loop of JumpDiffusion.solve
JumpDiffusionSolveStep ==
    /\ cls = "JumpDiffusion"
    /\ pc = "loop"
    /\ i < self.steps
    /\ \E xi \in Normals(Len(self.y)), u \in Uniforms :
         IF JD_euler_maruyama_raises(self, self.y, self.dt, xi)
         THEN /\ pc' = "raised"
              /\ err' = "ValueError"
              /\ draws' = DrawNormal(self, draws)
              /\ last' = [calls |-> <<"euler_maruyama_step">>,
                          xi |-> xi, u |-> -1, a |-> <<>>]
              /\ UNCHANGED <<self, i>>
         ELSE LET a  == JD_euler_maruyama_step(self, self.y, self.dt, xi)
                  y2 == apply_jump(self, a, u)
              IN  /\ self' = Commit(self, y2)
                  /\ last' = [calls |-> IF JumpFires(self, u)
                                THEN <<"euler_maruyama_step", "apply_jump", "jump_size">>
                                ELSE <<"euler_maruyama_step", "apply_jump">>,
                              xi |-> xi, u |-> u, a |-> a]
                  /\ draws' = Append(DrawNormal(self, draws), "uniform")
                  /\ i' = i + 1
                  /\ UNCHANGED <<pc, err>>
    /\ UNCHANGED <<cls, y0, t0, runs, result, pos0>>

JumpDiffusionSolveReturn ==
    /\ cls = "JumpDiffusion"
    /\ pc = "loop"
    /\ i >= self.steps
    /\ \E outcome \in ArrayOutcomes(self.trajectory) :
         IF outcome = "ValueError"
         THEN /\ pc' = "raised"
              /\ err' = "ValueError"
              /\ UNCHANGED <<runs, result>>
         ELSE /\ pc' = "idle"
              /\ result' = [time |-> self.time, trajectory |-> self.trajectory]
              /\ runs' = runs + 1
              /\ UNCHANGED err
    /\ UNCHANGED <<cls, self, y0, t0, i, draws, pos0, last>>

Next ==
    \/ NewHybrid
    \/ HybridSolveCall
    \/ HybridSolveStep
    \/ HybridSolveReturn
    \/ NewJumpDiffusion
    \/ JumpDiffusionSolveCall
    \/ JumpDiffusionSolveStep
    \/ JumpDiffusionSolveReturn

Spec == Init /\ [][Next]_vars

(***************************************************************************)
(* Callers that break the callables' contract: drift and diffusion may     *)
(* return an array whose dimension differs from that of the state.         *)
(***************************************************************************)
NewHybridAnyShape ==
    /\ pc = "start"
    /\ \E ff \in ShapeFns, gg \in ShapeFns, jc \in JumpConditions,
          jm \in JumpMaps, yy0 \in InitialStates, span \in 0..MaxSteps,
          sig \in {0, 1} :
           HybridInit(ff, gg, jc, jm, yy0, 0, span, 1, sig)

NewJumpDiffusionAnyShape ==
    /\ pc = "start"
    /\ \E ff \in ShapeFns, gg \in ShapeFns, lam \in {0, UniformGrid},
          js \in JumpSizeFns, yy0 \in InitialStates, span \in 0..MaxSteps,
          sig \in {0, 1} :
           JumpDiffusionInit(ff, gg, lam, js, yy0, 0, span, 1, sig)

NextShape ==
    \/ NewHybridAnyShape
    \/ HybridSolveCall
    \/ HybridSolveStep
    \/ HybridSolveReturn
    \/ NewJumpDiffusionAnyShape
    \/ JumpDiffusionSolveCall
    \/ JumpDiffusionSolveStep
    \/ JumpDiffusionSolveReturn

SpecShape == Init /\ [][NextShape]_vars

(***************************************************************************)
(* Properties                                                              *)
(***************************************************************************)
Constructed == cls # "none" /\ pc # "start" /\ pc # "raised"

Returned == Constructed /\ pc = "idle" /\ runs >= 1

\* an iteration of the for loop of solve() completes in this step
StepDone == pc = "loop" /\ i' = i + 1

Recorded(s) == s.trajectory[Len(s.trajectory)]

\* the jump trigger can never fire: jump_condition is the constant False,
\* or jump_intensity is 0
NeverFires ==
    \/ cls = "HybridEquation" /\ self.jump_condition = "never"
    \/ cls = "JumpDiffusion" /\ self.jump_intensity = 0

\* the drift callable of either class
DriftOf(s) == IF cls = "HybridEquation" THEN s.f_continuous ELSE s.f

DiffusionOf(s) == IF cls = "HybridEquation" THEN s.g_stochastic ELSE s.g

\* C1: for t0 < t1 and dt > 0 the first solve() of a fresh simulator returns a
\* time sequence and a state sequence of floor((t1-t0)/dt) + 1 entries each,
\* starting with (t0, y0), the k-th time being t0 + k*dt, whatever the jump
\* trigger did.
C1_FirstSolveGrid ==
    (Returned /\ runs = 1 /\ t0 < self.t1 /\ self.dt > 0) =>
        LET n == (self.t1 - t0) \div self.dt
        IN  /\ Len(result.time) = n + 1
            /\ Len(result.trajectory) = n + 1
            /\ result.time[1] = t0
            /\ result.trajectory[1] = y0
            /\ \A k \in 0..n : result.time[k + 1] = t0 + k * self.dt
            /\ \A k \in 1..n : result.time[k + 1] > result.time[k]

\* C1 witness: a first run of two steps of size 4 over a span of 9 has returned
C1_Witness ==
    /\ Returned /\ runs = 1
    /\ self.dt = 4 /\ self.t1 - t0 = 9 /\ t0 = 1
    /\ result.time = <<1, 5, 9>>
    /\ Len(result.trajectory) = 3

\* C2: every iteration of HybridEquation.solve makes exactly one state update.
\* When jump_condition(prev_y, prev_t) is true, euler_maruyama_step is not
\* called, no random number is drawn and the recorded state is
\* jump_map(prev_y, prev_t); when it is false, jump_map is not called and the
\* recorded state is the Euler-Maruyama update of prev_y.
C2_HybridExclusive ==
    [][(cls = "HybridEquation" /\ StepDone) =>
         /\ Len(self'.trajectory) = Len(self.trajectory) + 1
         /\ self'.y = Recorded(self')
         /\ IF JumpCondition(self.jump_condition, self.y, self.t)
            THEN /\ last'.calls = <<"jump_condition", "jump_map">>
                 /\ draws' = draws
                 /\ Recorded(self') = JumpMap(self.jump_map, self.y, self.t)
            ELSE /\ last'.calls = <<"jump_condition", "euler_maruyama_step">>
                 /\ Recorded(self') =
                      Hybrid_euler_maruyama_step(self, self.y, self.dt, last'.xi)
      ]_vars

\* C2 witness: a noisy HybridEquation has just jumped, after an earlier
\* Euler-Maruyama step whose noise moved the state
C2_Witness ==
    /\ cls = "HybridEquation" /\ pc = "loop"
    /\ self.noise_intensity # 0
    /\ last.calls = <<"jump_condition", "jump_map">>
    /\ Len(draws) >= 1
    /\ Len(self.trajectory) >= 3

\* C3: every iteration of JumpDiffusion.solve calls euler_maruyama_step first
\* and apply_jump on its result a: the recorded state is a + jump_size(a) when
\* the jump is triggered and a otherwise.
C3_JumpDiffusionOverlay ==
    [][(cls = "JumpDiffusion" /\ StepDone) =>
         LET a == JD_euler_maruyama_step(self, self.y, self.dt, last'.xi)
             triggered == last'.u < self.jump_intensity * self.dt
         IN  /\ last'.a = a
             /\ SubSeq(last'.calls, 1, 2) = <<"euler_maruyama_step", "apply_jump">>
             /\ triggered <=> last'.calls =
                    <<"euler_maruyama_step", "apply_jump", "jump_size">>
             /\ Recorded(self') =
                  IF triggered THEN VAdd(a, Call(self.jump_size, a)) ELSE a
      ]_vars

\* C3 witness: a jump has fired on a post-diffusion state that differs from
\* the pre-step state, with a state-dependent jump size
C3_Witness ==
    /\ cls = "JumpDiffusion" /\ pc = "loop" /\ i >= 1
    /\ self.jump_size = "ident"
    /\ last.calls = <<"euler_maruyama_step", "apply_jump", "jump_size">>
    /\ last.a # self.trajectory[Len(self.trajectory) - 1]
    /\ self.y = VAdd(last.a, last.a)

\* C4: with jump_intensity = 0 every iteration of JumpDiffusion.solve records
\* exactly the Euler-Maruyama update for the noise drawn, for every uniform
\* sample: jump_size is never called.
C4_ZeroIntensityIsDiffusion ==
    [][(cls = "JumpDiffusion" /\ StepDone /\ self.jump_intensity = 0) =>
         /\ Recorded(self') =
              JD_euler_maruyama_step(self, self.y, self.dt, last'.xi)
         /\ last'.calls = <<"euler_maruyama_step", "apply_jump">>
      ]_vars

\* C4 witness: a step with jump_intensity = 0 has drawn the uniform sample 0
C4_Witness ==
    /\ cls = "JumpDiffusion" /\ pc = "loop" /\ i >= 2
    /\ self.jump_intensity = 0
    /\ last.u = 0
    /\ self.noise_intensity # 0

\* the Euler method: n steps of y <- y + drift(y)*dt from y
RECURSIVE PureEuler(_, _, _, _)
PureEuler(fn, y, dt, n) ==
    IF n = 0 THEN y
    ELSE LET p == PureEuler(fn, y, dt, n - 1)
         IN  [k \in 1..Len(p) |-> p[k] + Call(fn, p)[k] * dt]

\* C5: with noise_intensity = 0 and a trigger that never fires, every recorded
\* state is y[k+1] = y[k] + drift(y[k])*dt, so the trajectory is the Euler
\* iteration from y0, a function of drift, y0, t0 and dt alone, whatever the
\* random source yields.
C5_PureEuler ==
    (Constructed /\ self.noise_intensity = 0 /\ NeverFires) =>
        /\ \A k \in 1..(Len(self.trajectory) - 1) :
              self.trajectory[k + 1] =
                 [j \in 1..Len(self.trajectory[k]) |->
                     self.trajectory[k][j]
                       + Call(DriftOf(self), self.trajectory[k])[j] * self.dt]
        /\ \A k \in 1..Len(self.trajectory) :
              /\ self.trajectory[k] = PureEuler(DriftOf(self), y0, self.dt, k - 1)
              /\ self.time[k] = t0 + (k - 1) * self.dt

\* C5 witness: two noise-free, jump-free steps were taken with a nonzero
\* normal draw and the state moved
C5_Witness ==
    /\ Constructed /\ self.noise_intensity = 0 /\ NeverFires
    /\ Len(self.trajectory) >= 3
    /\ last.xi # <<>>
    /\ self.trajectory[3] # self.trajectory[1]

\* the number of iterations a call of solve() makes
Iterations == IF self.steps > 0 THEN self.steps ELSE 0

\* C6 as stated: with noise_intensity = 0 and a trigger that never fires, a
\* complete run leaves the random stream where solve() found it.
C6_NoRandomnessConsumed ==
    (Returned /\ self.noise_intensity = 0 /\ NeverFires) => Len(draws) = pos0

\* C6 as amended: with noise_intensity = 0 and a trigger that never fires, a
\* complete run still consumes randomness: solve() advances the stream by one
\* normal draw per step in HybridEquation and by one normal and one uniform
\* draw per step in JumpDiffusion; only the recorded states are independent of
\* the values drawn.
C6_DrawsPerStep ==
    (Returned /\ self.noise_intensity = 0 /\ NeverFires) =>
        /\ cls = "HybridEquation" =>
              /\ Len(draws) = pos0 + Iterations
              /\ \A k \in (pos0 + 1)..Len(draws) : draws[k] = "normal"
        /\ cls = "JumpDiffusion" =>
              /\ Len(draws) = pos0 + 2 * Iterations
              /\ \A k \in 1..Iterations :
                    /\ draws[pos0 + 2 * k - 1] = "normal"
                    /\ draws[pos0 + 2 * k] = "uniform"

\* C6 witness: a noise-free, jump-free run of two steps has returned
C6_Witness ==
    /\ Returned /\ self.noise_intensity = 0 /\ NeverFires
    /\ self.steps = 2
    /\ Len(draws) > pos0

\* the four invalid constructions C7 names
InvalidArguments ==
    \/ self.dt = 0
    \/ self.t1 < t0
    \/ self.noise_intensity = -1
    \/ cls = "JumpDiffusion" /\ self.jump_intensity = -UniformGrid

\* C7: constructing a simulator with dt = 0, t1 < t0, noise intensity -1 or
\* jump intensity -1 fails with InvalidParameterError at construction: no
\* simulator exists on which solve() can run or return a trajectory.
C7_InvalidRejected ==
    (cls # "none" /\ InvalidArguments) =>
        /\ pc = "raised"
        /\ err = "InvalidParameterError"
        /\ result = <<>>

\* C8: every call of solve() on an instance, the second and later ones
\* included, starts from (t0, y0) and returns exactly N + 1 entries, the first
\* being (t0, y0), with N = floor((t1-t0)/dt).
C8_ReuseResets ==
    (Constructed /\ t0 < self.t1 /\ self.dt > 0) =>
        /\ (pc = "loop" /\ i = 0) => (self.y = y0 /\ self.t = t0)
        /\ Returned =>
              /\ Len(result.time) = (self.t1 - t0) \div self.dt + 1
              /\ Len(result.trajectory) = (self.t1 - t0) \div self.dt + 1
              /\ result.time[1] = t0
              /\ result.trajectory[1] = y0

\* C10: euler_maruyama_step(y, dt) of either class returns, elementwise,
\* y + drift(y)*dt + diffusion(y)*(sigma*sqrt(dt)*xi) for the normal vector xi
\* drawn in the call, which has the dimension of y.
C10_EulerMaruyamaFormula ==
    [][(StepDone /\ last'.a # <<>>) =>
         LET y  == self.y
             fy == Call(DriftOf(self), y)
             gy == Call(DiffusionOf(self), y)
             xi == last'.xi
         IN  /\ Len(xi) = Len(y)
             /\ Len(last'.a) = Len(y)
             /\ \E r \in 0..self.dt :
                  /\ r * r = self.dt
                  /\ \A k \in 1..Len(y) :
                       last'.a[k] = y[k] + fy[k] * self.dt
                                      + gy[k] * (self.noise_intensity * r * xi[k])
             /\ cls = "HybridEquation" => self'.y = last'.a
      ]_vars

\* C10 witness: an Euler-Maruyama step of size 4 with nonzero noise on a
\* two-dimensional state
C10_Witness ==
    /\ Constructed /\ pc = "loop"
    /\ self.dt = 4 /\ self.noise_intensity = 1
    /\ Len(last.a) = 2
    /\ last.xi = <<1, -1>>
    /\ i = 2

\* the k-th recorded step was an Euler-Maruyama update of trajectory[k]
EulerMaruyamaAt(k) ==
    \/ cls = "JumpDiffusion"
    \/ /\ cls = "HybridEquation"
       /\ ~JumpCondition(self.jump_condition, self.trajectory[k], self.time[k])

\* C9: a dimension mismatch between y and drift(y) or diffusion(y) aborts the
\* run at its first occurrence: solve() never records a state that
\* euler_maruyama_step computed from a drift or diffusion value whose
\* dimension differs from that of y.
C9_ShapeChecked ==
    (cls # "none" /\ pc # "start" /\ err # "ZeroDivisionError") =>
        \A k \in 1..(Len(self.trajectory) - 1) :
            EulerMaruyamaAt(k) =>
                /\ Len(Call(DriftOf(self), self.trajectory[k]))
                     = Len(self.trajectory[k])
                /\ Len(Call(DiffusionOf(self), self.trajectory[k]))
                     = Len(self.trajectory[k])

\* C11: at step i (0-based) of HybridEquation.solve, jump_condition is
\* evaluated exactly once, before anything else, and it and jump_map receive
\* the pre-step state and time, which are (trajectory[i], t0 + i*dt); the jump
\* is taken on every step whose condition is true.
C11_PreStepArguments ==
    [][(cls = "HybridEquation" /\ StepDone) =>
         LET py == self.trajectory[i + 1]
             pt == t0 + i * self.dt
             jump == JumpCondition(self.jump_condition, py, pt)
         IN  /\ self.y = py
             /\ self.t = pt
             /\ last'.calls[1] = "jump_condition"
             /\ Cardinality({j \in 1..Len(last'.calls) :
                               last'.calls[j] = "jump_condition"}) = 1
             /\ jump <=> last'.calls[2] = "jump_map"
             /\ jump => Recorded(self') = JumpMap(self.jump_map, py, pt)
      ]_vars

\* C12: apply_jump draws exactly one uniform sample u in [0,1) per call and
\* returns y + jump_size(y) if and only if u < jump_intensity*dt, otherwise y:
\* at most one increment per step, a jump on every step when
\* jump_intensity*dt >= 1 and on no step when jump_intensity = 0.
C12_BernoulliJump ==
    [][(cls = "JumpDiffusion" /\ StepDone) =>
         LET u == last'.u
             a == last'.a
             rate == self.jump_intensity * self.dt
             fired == \E j \in 1..Len(last'.calls) : last'.calls[j] = "jump_size"
         IN  /\ u \in 0..(UniformGrid - 1)
             /\ Len(draws') = Len(draws) + 2
             /\ draws'[Len(draws')] = "uniform"
             /\ draws'[Len(draws') - 1] # "uniform"
             /\ fired <=> u < rate
             /\ fired => self'.y = VAdd(a, Call(self.jump_size, a))
             /\ ~fired => self'.y = a
             /\ rate >= UniformGrid => fired
             /\ self.jump_intensity = 0 => ~fired
      ]_vars

\* C12 witness: with jump_intensity*dt >= 1 the jump has fired on the largest
\* uniform sample, twice in a row
C12_Witness ==
    /\ cls = "JumpDiffusion" /\ pc = "loop" /\ i = 2
    /\ self.jump_intensity = 1 /\ self.dt = 4
    /\ last.u = UniformGrid - 1
    /\ last.calls = <<"euler_maruyama_step", "apply_jump", "jump_size">>
    /\ self.y = VAdd(last.a, Call(self.jump_size, last.a))

\* C13: the trajectory is append-only and in 1:1 correspondence with the step
\* index: after every completed step k of solve() the time list and the state
\* list both have length k + 1, entry k is the (time, state) of step k, and
\* no step changes an entry recorded earlier.
C13_AppendOnly ==
    [][Constructed =>
         /\ SubSeq(self'.trajectory, 1, Len(self.trajectory)) = self.trajectory
         /\ SubSeq(self'.time, 1, Len(self.time)) = self.time
         /\ StepDone =>
               /\ Len(self'.trajectory) = i' + 1
               /\ Len(self'.time) = i' + 1
               /\ self'.trajectory[Len(self'.trajectory)] = self'.y
               /\ self'.time[Len(self'.time)] = self'.t
      ]_vars

\* C14: solve() ends after exactly N = floor((t1-t0)/dt) iterations whatever
\* the jump trigger did, and the simulator's time is then t0 + N*dt, which is
\* at most t1 and more than t1 - dt.
C14_EndsAtGrid ==
    (Returned /\ t0 < self.t1 /\ self.dt > 0) =>
        LET n == (self.t1 - t0) \div self.dt
        IN  /\ i = n
            /\ self.t = t0 + n * self.dt
            /\ self.t <= self.t1
            /\ self.t > self.t1 - self.dt

\* the attributes solve() may change
RunState == {"y", "t", "trajectory", "time"}

\* C15: a run never changes the configuration: dt, t1, the step count, the
\* noise intensity, the jump intensity and the callables stay as constructed;
\* solve() changes only y, t, trajectory and time.
C15_ConfigFrozen ==
    [][Constructed =>
         /\ cls' = cls
         /\ DOMAIN self' = DOMAIN self
         /\ \A fld \in DOMAIN self \ RunState : self'[fld] = self[fld]
      ]_vars

\* C15 witness: a run of two steps has returned with the state and the time
\* changed
C15_Witness ==
    /\ Returned /\ self.steps = 2
    /\ self.y # y0 /\ self.t = t0 + 2 * self.dt
    /\ Len(self.trajectory) = 3 /\ Len(self.time) = 3

\* the number of the last n recorded steps of HybridEquation that jumped
JumpSteps(n) ==
    Cardinality({k \in (Len(self.trajectory) - n)..(Len(self.trajectory) - 1) :
                   JumpCondition(self.jump_condition,
                                 self.trajectory[k], self.time[k])})

\* the draws consumed by the i steps of the running solve()
DrawsCounted ==
    pc = "loop" =>
        Len(draws) = pos0 + (IF cls = "HybridEquation"
                             THEN i - JumpSteps(i) ELSE 2 * i)

\* C16: the random stream is consumed in a fixed order: a HybridEquation step
\* takes one normal draw when the condition is false and none when it is
\* true, a JumpDiffusion step takes one normal draw and then one uniform draw
\* whether or not the jump fires; after k steps the number of draws is given
\* by k and the number of jump steps.
C16_DrawOrder ==
    [][IF StepDone
       THEN /\ IF cls = "HybridEquation"
               THEN IF JumpCondition(self.jump_condition, self.y, self.t)
                    THEN draws' = draws
                    ELSE draws' = draws \o <<"normal">>
               ELSE draws' = draws \o <<"normal", "uniform">>
            /\ DrawsCounted'
       ELSE draws' = draws
      ]_vars

\* C16 witness: a HybridEquation run on a two-dimensional state has made one
\* jump step and one Euler-Maruyama step
C16_Witness ==
    /\ cls = "HybridEquation" /\ pc = "loop" /\ i = 2
    /\ Len(self.y) = 2
    /\ JumpSteps(2) = 1
    /\ Len(draws) = pos0 + 1

\* a JumpDiffusion of intensity 0 with the configuration and state of the
\* HybridEquation s, and a HybridEquation that never jumps with those of the
\* JumpDiffusion s
TwinJumpDiffusion(s, js) ==
    [f |-> s.f_continuous, g |-> s.g_stochastic, jump_intensity |-> 0,
     jump_size |-> js, y |-> s.y, t |-> s.t, t1 |-> s.t1, dt |-> s.dt,
     noise_intensity |-> s.noise_intensity, steps |-> s.steps,
     trajectory |-> s.trajectory, time |-> s.time]

TwinHybrid(s, jm) ==
    [f_continuous |-> s.f, g_stochastic |-> s.g, jump_condition |-> "never",
     jump_map |-> jm, y |-> s.y, t |-> s.t, t1 |-> s.t1, dt |-> s.dt,
     noise_intensity |-> s.noise_intensity, steps |-> s.steps,
     trajectory |-> s.trajectory, time |-> s.time]

SameRun(a, b) ==
    /\ a.y = b.y /\ a.t = b.t
    /\ a.trajectory = b.trajectory /\ a.time = b.time

\* both constructors start the run from the same lists and step count
TwinStart ==
    (Constructed /\ runs = 0 /\ pc = "idle") =>
        /\ self.trajectory = <<y0>> /\ self.time = <<t0>>
        /\ self.y = y0 /\ self.t = t0
        /\ self.steps = IntTrunc(self.t1 - t0, self.dt)

\* every step of a never-jumping instance is the step its twin of the other
\* class makes from the same state with the same normal draw
TwinStep ==
    (StepDone /\ NeverFires) =>
        IF cls = "HybridEquation"
        THEN \A u \in Uniforms, js \in JumpSizeFns :
                LET tw == TwinJumpDiffusion(self, js)
                    a  == JD_euler_maruyama_step(tw, tw.y, tw.dt, last'.xi)
                IN  SameRun(self', Commit(tw, apply_jump(tw, a, u)))
        ELSE \A jm \in JumpMaps :
                LET tw == TwinHybrid(self, jm)
                    jump == JumpCondition(tw.jump_condition, tw.y, tw.t)
                IN  SameRun(self', Commit(tw, HybridUpdate(tw, jump, last'.xi)))

\* C17: with the same drift, diffusion, y0, t0, t1, dt, noise intensity and
\* noise draws, a HybridEquation whose condition is always false and a
\* JumpDiffusion of intensity 0 produce identical time and state sequences:
\* they start alike and every step of one is the step of the other.
C17_SamePolicy == []TwinStart /\ [][TwinStep]_vars

\* C17 witness: a noisy never-jumping HybridEquation has returned two steps of
\* size 4 on a two-dimensional state
C17_Witness ==
    /\ Returned /\ cls = "HybridEquation"
    /\ self.jump_condition = "never" /\ self.noise_intensity = 1
    /\ self.dt = 4
    /\ Len(result.trajectory) = 3 /\ Len(y0) = 2

====
